---- MODULE Spec2Model ----
(***************************************************************************)
(* PlayStore fraud detection: the single-app judgment pipeline             *)
(* (PlayStoreFraudDetector.analyze_app, LLMAnalyzer.analyze_app), the      *)
(* feature extractors that feed it and the batch loop around it            *)
(* (PlayStoreFraudDetector.batch_analyze).                                 *)
(*                                                                         *)
(* Python values are tagged records: None, numbers, strings, lists and     *)
(* dicts (a dict is a function from its keys to values).  A computation    *)
(* that may raise yields either Ok(v) or Raise(e).                         *)
(***************************************************************************)
EXTENDS Integers, Sequences, FiniteSets, TLC

\* ------------------------------------------------------------------------
\* Python values
\* ------------------------------------------------------------------------
None == [t |-> "null"]
Num(n) == [t |-> "num", n |-> n]
Str(s) == [t |-> "str", s |-> s]
List(l) == [t |-> "list", l |-> l]
Dict(d) == [t |-> "dict", d |-> d]
EmptyDict == Dict(<<>>)

IsNum(v) == v.t = "num"
IsStr(v) == v.t = "str"
IsList(v) == v.t = "list"
IsDict(v) == v.t = "dict"

\* bool(v)
Truthy(v) ==
    CASE v.t = "null" -> FALSE
      [] v.t = "num" -> v.n # 0
      [] v.t = "str" -> v.s # ""
      [] v.t = "list" -> v.l # <<>>
      [] v.t = "dict" -> DOMAIN v.d # {}

\* d.get(k, default) on a dict's key function
Get(d, k, default) == IF k \in DOMAIN d THEN d[k] ELSE default

\* the outcome of a computation: a value, or a raised exception
Ok(v) == [val |-> v]
Raise(e) == [exc |-> e]
IsExc(r) == "exc" \in DOMAIN r

\* "X" * n
RECURSIVE Repeat(_, _)
Repeat(s, n) ==
    IF n = 0 THEN ""
    ELSE LET h == Repeat(s, n \div 2)
         IN IF n % 2 = 1 THEN h \o h \o s ELSE h \o h

\* s[:n] on a string or a list
Prefix(s, n) == SubSeq(s, 1, IF Len(s) < n THEN Len(s) ELSE n)

RECURSIVE SeqSum(_)
SeqSum(s) == IF s = <<>> THEN 0 ELSE Head(s) + SeqSum(Tail(s))

\* a/b as an exact fraction; the code's "0 if the denominator is 0"
Ratio(a, b) == IF b > 0 THEN [num |-> a, den |-> b] ELSE [num |-> 0, den |-> 1]

\* ------------------------------------------------------------------------
\* Feature extractor of the detector (detector.py)
\* ------------------------------------------------------------------------
DANGEROUS_PERMISSIONS ==
    { "android.permission.READ_CONTACTS",
      "android.permission.ACCESS_FINE_LOCATION",
      "android.permission.RECORD_AUDIO",
      "android.permission.CAMERA",
      "android.permission.READ_SMS",
      "android.permission.SEND_SMS",
      "android.permission.CALL_PHONE",
      "android.permission.READ_CALL_LOG",
      "android.permission.READ_EXTERNAL_STORAGE",
      "android.permission.WRITE_EXTERNAL_STORAGE",
      "android.permission.GET_ACCOUNTS",
      "android.permission.READ_PHONE_STATE" }

\* the keys of a dict in iteration order (Python keeps insertion order; the
\* model fixes one order per key set)
KeySeq(d) ==
    CHOOSE q \in [1..Cardinality(DOMAIN d) -> DOMAIN d] :
        \A i, j \in DOMAIN q : i # j => q[i] # q[j]

\* "for x in v" for the iterable values: the items of a list, the characters
\* of a string, the keys of a dict
Iterate(v) ==
    CASE v.t = "list" -> v.l
      [] v.t = "str" -> [i \in 1..Len(v.s) |-> Str(SubSeq(v.s, i, i))]
      [] v.t = "dict" -> [i \in 1..Cardinality(DOMAIN v.d) |-> Str(KeySeq(v.d)[i])]

Iterable(v) == v.t \in {"list", "str", "dict"}

\* the strings among the items of a sequence that are dangerous permissions
DangerousAmong(items) ==
    LET keep == {i \in 1..Len(items) :
                    IsStr(items[i]) /\ items[i].s \in DANGEROUS_PERMISSIONS}
        F[i \in 0..Len(items)] ==
            IF i = 0 THEN <<>>
            ELSE IF i \in keep THEN Append(F[i - 1], items[i].s) ELSE F[i - 1]
    IN F[Len(items)]

FiveStarLimitNum == 9
FiveStarLimitDen == 10
SimilarTextPrefix == 20
MinReviewsForPatterns == 10

\* a pattern check that starts at ten reviews
PatternsCheckedFromTen(total_reviews) == total_reviews >= MinReviewsForPatterns

\* if total_reviews > 10
PatternsChecked(total_reviews) == total_reviews > MinReviewsForPatterns

\* a limit that is reached at exactly nine tenths
ReachesFiveStarLimit(five_star_count, total_reviews) ==
    five_star_count * FiveStarLimitDen >= FiveStarLimitNum * total_reviews

\* five_star_count / total_reviews > 0.9 (the float quotient exceeds the
\* literal exactly when the fraction exceeds 9/10, for every count a list
\* can have)
ExceedsFiveStarLimit(five_star_count, total_reviews) ==
    five_star_count * FiveStarLimitDen > FiveStarLimitNum * total_reviews

\* a check that is met at exactly half
HalfOrFewerDistinct(distinct, total_reviews) == 2 * distinct <= total_reviews

\* len(set(...)) < total_reviews * 0.5 (the product with 0.5 is exact)
FewerThanHalfDistinct(distinct, total_reviews) == 2 * distinct < total_reviews

_process_reviews(reviews) ==
    IF ~Truthy(reviews) THEN Ok([available |-> FALSE])
    ELSE IF ~Iterable(reviews) THEN Raise("TypeError")
    ELSE
      LET items == Iterate(reviews)
          total_reviews == Len(items)
          I == 1..total_reviews
          score(i) == Get(items[i].d, "score", Num(0))
          text(i) == Get(items[i].d, "text", Str(""))
      IN IF \E i \in I : ~IsDict(items[i]) THEN Raise("AttributeError")
         ELSE IF \E i \in I : ~IsNum(score(i)) THEN Raise("TypeError")
         ELSE
           LET five_star_count == Cardinality({i \in I : score(i) = Num(5)})
               one_star_count == Cardinality({i \in I : score(i) = Num(1)})
               scores == [i \in I |-> score(i).n]
               prefixes == {Prefix(text(i).s, SimilarTextPrefix) : i \in I}
               flags ==
                   IF PatternsChecked(total_reviews)
                   THEN (IF ExceedsFiveStarLimit(five_star_count, total_reviews)
                         THEN {"excessive_five_stars"} ELSE {})
                        \cup
                        (IF FewerThanHalfDistinct(Cardinality(prefixes), total_reviews)
                         THEN {"similar_review_texts"} ELSE {})
                   ELSE {}
           IN IF PatternsChecked(total_reviews)
                 /\ \E i \in I : ~IsStr(text(i))
              THEN Raise("TypeError")
              ELSE Ok([available |-> TRUE,
                       count |-> total_reviews,
                       average_rating |-> Ratio(SeqSum(scores), total_reviews),
                       five_star_percentage |-> Ratio(five_star_count, total_reviews),
                       one_star_percentage |-> Ratio(one_star_count, total_reviews),
                       suspicious_patterns |-> [f \in flags |-> TRUE]])

\* a counter that counts each dangerous permission once, however often the
\* list names it
PermissionCountsDistinct(permissions) ==
    IF ~Iterable(permissions) THEN Raise("TypeError")
    ELSE
      LET items == Iterate(permissions)
          found == DangerousAmong(items)
          distinct == Cardinality({found[i] : i \in DOMAIN found})
      IN Ok([total |-> Len(items),
             dangerous_count |-> distinct,
             dangerous_ratio |-> Ratio(distinct, Len(items)),
             dangerous_found |-> found])

\* the body both permission counters share, on the permissions value
PermissionCounts(permissions) ==
    IF ~Iterable(permissions) THEN Raise("TypeError")
    ELSE
      LET items == Iterate(permissions)
          found == DangerousAmong(items)
      IN Ok([total |-> Len(items),
             dangerous_count |-> Len(found),
             dangerous_ratio |-> Ratio(Len(found), Len(items)),
             dangerous_found |-> found])

_count_dangerous_permissions(app_data) ==
    PermissionCounts(Get(app_data, "permissions", List(<<>>)))

\* PlayStoreClient defines no get_developer_apps: the attribute lookup raises
get_developer_apps(developer_id) == Raise("AttributeError")

\* a developer analysis with no try around the lookup: its failure leaves
\* the function
DeveloperHistoryUnguarded(developer_data) ==
    IF ~IsDict(developer_data) THEN Raise("AttributeError")
    ELSE IF Truthy(Get(developer_data.d, "id", None))
    THEN get_developer_apps(Get(developer_data.d, "id", None))
    ELSE Ok(<<>>)

_analyze_developer_history(developer_data) ==
    IF ~IsDict(developer_data) THEN Raise("AttributeError")
    ELSE
      LET d == developer_data.d
          missing ==
              (IF ~Truthy(Get(d, "email", None))
               THEN {"missing_contact_email"} ELSE {})
              \cup (IF ~Truthy(Get(d, "website", None))
                    THEN {"missing_website"} ELSE {})
              \cup (IF ~Truthy(Get(d, "privacyPolicy", None))
                    THEN {"missing_privacy_policy"} ELSE {})
          base == [f \in missing |-> TRUE]
          developer_id == Get(d, "id", None)
      IN IF Truthy(developer_id)
         THEN LET developer_apps == get_developer_apps(developer_id)
              IN IF IsExc(developer_apps)
                 THEN Ok(("developer_history_available" :> FALSE) @@ base)
                 ELSE Ok(("app_count" :> Len(developer_apps.val))
                         @@ ("new_developer" :> (Len(developer_apps.val) < 3))
                         @@ base)
         ELSE Ok(base)

DangerousRatioLimitNum == 2
DangerousRatioLimitDen == 5

\* a limit that is reached at exactly two fifths
ReachesDangerousRatio(ratio) ==
    ratio.num * DangerousRatioLimitDen >= DangerousRatioLimitNum * ratio.den

\* permission_analysis["dangerous_ratio"] > 0.4 (the float quotient exceeds
\* the literal exactly when the fraction exceeds 2/5, for every count a
\* list can have)
ExceedsDangerousRatio(ratio) ==
    ratio.num * DangerousRatioLimitDen > DangerousRatioLimitNum * ratio.den

\* a category check that ignores the case of the letters
PaidFinanceAnyCase(app_data, price) ==
    /\ price.n > 0
    /\ Get(app_data, "category", None) \in {Str("Finance"), Str("finance"), Str("FINANCE")}

\* app_data.get("price", 0) > 0 and app_data.get("category") == "Finance"
PaidFinance(app_data, price) ==
    /\ price.n > 0
    /\ Get(app_data, "category", None) = Str("Finance")

\* the conditionally present flags of the indicators mapping
CompoundFlags(app_data, ratio, price) ==
    (IF ExceedsDangerousRatio(ratio)
     THEN {"excessive_dangerous_permissions"} ELSE {})
    \cup
    (IF PaidFinance(app_data, price)
     THEN {"paid_finance_app"} ELSE {})

\* price > 0 raises on a price that is no number
PriceChecked(price) == IF IsNum(price) THEN Ok(price) ELSE Raise("TypeError")

\* the indicators mapping, from the outcomes of its three analyses in the
\* order the code runs them
IndicatorsOf(app_data, permission_analysis, developer_analysis, price) ==
    IF IsExc(permission_analysis) THEN permission_analysis
    ELSE IF IsExc(developer_analysis) THEN developer_analysis
    ELSE IF IsExc(price) THEN price
    ELSE Ok(("dangerous_permissions" :> permission_analysis.val)
            @@ ("developer_issues" :> developer_analysis.val)
            @@ [f \in CompoundFlags(app_data,
                                    permission_analysis.val.dangerous_ratio,
                                    price.val) |-> TRUE])

_extract_suspicious_indicators(app_data) ==
    IndicatorsOf(app_data,
                 _count_dangerous_permissions(app_data),
                 _analyze_developer_history(Get(app_data, "developer", EmptyDict)),
                 PriceChecked(Get(app_data, "price", Num(0))))

MaxDescription == 1000

\* app_data.get("description")[:1000], with no check that there is one
DescriptionUnguarded(app_data) ==
    LET d == Get(app_data, "description", None)
    IN IF IsStr(d) THEN Ok(Str(Prefix(d.s, MaxDescription)))
       ELSE Raise("TypeError")

\* a description passed on whole
DescriptionUntruncated(app_data) ==
    LET d == Get(app_data, "description", Str(""))
    IN IF ~Truthy(d) THEN Ok(Str("")) ELSE Ok(d)

\* description[:1000] if description else ""
Description(app_data) ==
    LET d == Get(app_data, "description", Str(""))
    IN IF ~Truthy(d) THEN Ok(Str(""))
       ELSE IF IsStr(d) THEN Ok(Str(Prefix(d.s, MaxDescription)))
       ELSE IF IsList(d) THEN Ok(List(Prefix(d.l, MaxDescription)))
       ELSE Raise("TypeError")

\* the processed_data literal, from the outcomes of the computations in it
BundleOf(app_data, description, reviews, indicators) ==
    IF IsExc(description) THEN description
    ELSE IF IsExc(reviews) THEN reviews
    ELSE IF IsExc(indicators) THEN indicators
    ELSE Ok([app_id |-> Get(app_data, "appId", Str("unknown")),
             title |-> Get(app_data, "title", Str("")),
             description |-> description.val,
             category |-> Get(app_data, "category", Str("")),
             price |-> Get(app_data, "price", Num(0)),
             developer |-> Get(app_data, "developer", EmptyDict),
             content_rating |-> Get(app_data, "contentRating", Str("")),
             reviews |-> reviews.val,
             permissions |-> Get(app_data, "permissions", List(<<>>)),
             suspicious_indicators |-> indicators.val])

preprocess_app_data(app_data) ==
    BundleOf(app_data,
             Description(app_data),
             _process_reviews(Get(app_data, "reviews", List(<<>>))),
             _extract_suspicious_indicators(app_data))

\* the sections of the prompt, in the order the template renders them; every
\* value of a bundle renders (it came from JSON), so the builder never raises
generate_llm_prompt(app_data) ==
    Ok(<<app_data.title, app_data.category, app_data.price,
         app_data.content_rating, app_data.description, app_data.developer,
         app_data.permissions, app_data.reviews,
         app_data.suspicious_indicators>>)

\* ------------------------------------------------------------------------
\* Feature extractor of the analysis package (analysis/app_analyzer.py)
\* ------------------------------------------------------------------------
extract_permissions(permissions_data) ==
    IF IsDict(permissions_data) /\ "list" \in DOMAIN permissions_data.d
    THEN Get(permissions_data.d, "list", List(<<>>))
    ELSE List(<<>>)

process_reviews(reviews) ==
    IF ~Truthy(reviews) THEN Ok([available |-> FALSE])
    ELSE IF ~Iterable(reviews) THEN Raise("TypeError")
    ELSE
      LET items == Iterate(reviews)
          total_reviews == Len(items)
          I == 1..total_reviews
          score(i) == Get(items[i].d, "score", Num(0))
          text(i) == Get(items[i].d, "text", Str(""))
      IN IF \E i \in I : ~IsDict(items[i]) THEN Raise("AttributeError")
         ELSE IF \E i \in I : ~IsNum(score(i)) THEN Raise("TypeError")
         ELSE
           LET five_star_count == Cardinality({i \in I : score(i) = Num(5)})
               one_star_count == Cardinality({i \in I : score(i) = Num(1)})
               scores == [i \in I |-> score(i).n]
               prefixes == {Prefix(text(i).s, SimilarTextPrefix) : i \in I}
               flags ==
                   IF PatternsChecked(total_reviews)
                   THEN (IF ExceedsFiveStarLimit(five_star_count, total_reviews)
                         THEN {"excessive_five_stars"} ELSE {})
                        \cup
                        (IF FewerThanHalfDistinct(Cardinality(prefixes), total_reviews)
                         THEN {"similar_review_texts"} ELSE {})
                   ELSE {}
           IN IF PatternsChecked(total_reviews)
                 /\ \E i \in I : ~IsStr(text(i))
              THEN Raise("TypeError")
              ELSE Ok([available |-> TRUE,
                       count |-> total_reviews,
                       average_rating |-> Ratio(SeqSum(scores), total_reviews),
                       five_star_percentage |-> Ratio(five_star_count, total_reviews),
                       one_star_percentage |-> Ratio(one_star_count, total_reviews),
                       suspicious_patterns |-> [f \in flags |-> TRUE]])

count_dangerous_permissions(permissions) == PermissionCounts(permissions)

\* developer_data.get raises on a developer that is no mapping
DeveloperIssues(developer_data) ==
    IF ~IsDict(developer_data) THEN Raise("AttributeError")
    ELSE Ok([f \in (IF ~Truthy(Get(developer_data.d, "email", None))
                    THEN {"missing_contact_email"} ELSE {})
                   \cup (IF ~Truthy(Get(developer_data.d, "privacyPolicy", None))
                         THEN {"missing_privacy_policy"} ELSE {}) |-> TRUE])

\* the function body from the extracted permissions on, in the order the
\* code runs its steps
AnalyzerBundleOf(app_data, permissions, reviews_analysis, permission_analysis, developer_issues, price, description) ==
    IF IsExc(reviews_analysis) THEN reviews_analysis
    ELSE IF IsExc(permission_analysis) THEN permission_analysis
    ELSE IF IsExc(developer_issues) THEN developer_issues
    ELSE IF IsExc(price) THEN price
    ELSE IF IsExc(description) THEN description
    ELSE Ok([app_id |-> Get(app_data, "appId", Str("unknown")),
             title |-> Get(app_data, "title", Str("")),
             description |-> description.val,
             category |-> Get(app_data, "category", Str("")),
             price |-> price.val,
             developer |-> Get(app_data, "developer", EmptyDict),
             content_rating |-> Get(app_data, "contentRating", Str("")),
             reviews |-> reviews_analysis.val,
             permissions |-> permissions,
             suspicious_indicators |->
                 ("dangerous_permissions" :> permission_analysis.val)
                 @@ ("developer_issues" :> developer_issues.val)
                 @@ [f \in CompoundFlags(app_data,
                                         permission_analysis.val.dangerous_ratio,
                                         price.val) |-> TRUE]])

\* everything after permissions = extract_permissions(...)
AnalyzerPreprocessWith(app_data, permissions) ==
    AnalyzerBundleOf(app_data,
                     permissions,
                     process_reviews(Get(app_data, "comments", List(<<>>))),
                     count_dangerous_permissions(permissions),
                     DeveloperIssues(Get(app_data, "developer", EmptyDict)),
                     PriceChecked(Get(app_data, "price", Num(0))),
                     Description(app_data))

analyzer_preprocess_app_data(app_data) ==
    AnalyzerPreprocessWith(
        app_data, extract_permissions(Get(app_data, "permissions", EmptyDict)))

\* ------------------------------------------------------------------------
\* Judgment client (detector.py analyze_app, llm_analyzer.py analyze_app)
\* ------------------------------------------------------------------------
MaxReasonLen == 300

Verdict(type, reason) == ("type" :> type) @@ ("reason" :> reason)

\* an invalid-format fallback that reuses the error reason
InvalidFormatAsError ==
    Verdict(Str("suspected"),
            Str("Error during analysis. Manual review recommended."))

InvalidFormatFallback ==
    Verdict(Str("suspected"),
            Str("Analysis produced invalid format. Manual review recommended."))

\* an error fallback that clears the app instead of flagging it
GenuineErrorFallback ==
    Verdict(Str("genuine"),
            Str("Error during analysis. Manual review recommended."))

ErrorFallback ==
    Verdict(Str("suspected"),
            Str("Error during analysis. Manual review recommended."))

\* Response texts the remote model may return, each JSON document with the
\* value json.loads decodes it to.
JsonDocuments ==
    { <<"{\"type\": \"fraud\", \"reason\": \"Requests SMS access without need\"}",
        Dict(Verdict(Str("fraud"), Str("Requests SMS access without need")))>>,
      <<"{\"type\": \"genuine\", \"reason\": \"" \o Repeat("X", MaxReasonLen) \o "\"}",
        Dict(Verdict(Str("genuine"), Str(Repeat("X", MaxReasonLen))))>>,
      <<"{\"type\": \"suspected\", \"reason\": \"New developer, no website\"}",
        Dict(Verdict(Str("suspected"), Str("New developer, no website")))>>,
      <<"{\"type\": \"fraud\", \"reason\": \"" \o Repeat("X", MaxReasonLen + 1) \o "\"}",
        Dict(Verdict(Str("fraud"), Str(Repeat("X", MaxReasonLen + 1))))>>,
      <<"{\"type\": \"maybe_fraud\", \"reason\": \"Valid reason\"}",
        Dict(Verdict(Str("maybe_fraud"), Str("Valid reason")))>>,
      <<"{\"type\": \"fraud\"}",
        Dict("type" :> Str("fraud"))>>,
      <<"{\"reason\": \"Looks fine\"}",
        Dict("reason" :> Str("Looks fine"))>>,
      <<"{\"type\": \"genuine\", \"reason\": 5}",
        Dict(Verdict(Str("genuine"), Num(5)))>>,
      <<"{\"type\": 1, \"reason\": \"Looks fine\"}",
        Dict(Verdict(Num(1), Str("Looks fine")))>>,
      <<"{\"type\": \"genuine\", \"reason\": \"Looks fine\", \"app_id\": \"evil.id\", \"confidence\": 1}",
        Dict(Verdict(Str("genuine"), Str("Looks fine"))
             @@ ("app_id" :> Str("evil.id")) @@ ("confidence" :> Num(1)))>>,
      <<"[]", List(<<>>)>>,
      <<"null", None>> }

\* Response texts that are not JSON
MalformedTexts == {"", "Sorry, I cannot analyze this app."}

ResponseTexts == {doc[1] : doc \in JsonDocuments} \cup MalformedTexts

\* json.loads(text)
json_loads(text) ==
    IF \E doc \in JsonDocuments : doc[1] = text
    THEN Ok((CHOOSE doc \in JsonDocuments : doc[1] = text)[2])
    ELSE Raise("JSONDecodeError")

\* What model.generate_content (and reading response.text) can do: raise, or
\* hand back a text
RemoteExceptions == {"ConnectionError", "DeadlineExceeded"}

RemoteOutcomes ==
    {[kind |-> "raise", exc |-> e] : e \in RemoteExceptions}
    \cup {[kind |-> "text", text |-> t] : t \in ResponseTexts}

\* the classes "except Exception" catches: every exception a step of the
\* pipeline raises derives from Exception
ExceptionClasses ==
    {"TypeError", "AttributeError", "KeyError", "JSONDecodeError"}
    \cup RemoteExceptions

\* a handler that catches decoding errors only
OnlyDecodeErrors(e) == e = "JSONDecodeError"

ExceptException(e) == e \in ExceptionClasses

VerdictTypes == {Str("fraud"), Str("genuine"), Str("suspected")}

\* a validator that forgets the length limit of the reason
ValidateWithoutLength(result) ==
    /\ IsDict(result)
    /\ "type" \in DOMAIN result.d /\ "reason" \in DOMAIN result.d
    /\ result.d["type"] \in VerdictTypes
    /\ IsStr(result.d["reason"])

_validate_result_format(result) ==
    IF ~IsDict(result) THEN FALSE
    ELSE IF "type" \notin DOMAIN result.d \/ "reason" \notin DOMAIN result.d THEN FALSE
    ELSE IF result.d["type"] \notin VerdictTypes THEN FALSE
    ELSE IF ~IsStr(result.d["reason"]) \/ Len(result.d["reason"].s) > MaxReasonLen
         THEN FALSE
    ELSE TRUE

validate_result_format(result) ==
    IF ~IsDict(result) THEN FALSE
    ELSE IF "type" \notin DOMAIN result.d \/ "reason" \notin DOMAIN result.d THEN FALSE
    ELSE IF result.d["type"] \notin VerdictTypes THEN FALSE
    ELSE IF ~IsStr(result.d["reason"]) \/ Len(result.d["reason"].s) > MaxReasonLen
         THEN FALSE
    ELSE TRUE

LogEvent(level, what) == [level |-> level, what |-> what]

\* One run of a step: what it returns or raises, the remote calls it made
\* (0 or 1) and what it logged.
Run(ret, remote_calls, logged) ==
    [ret |-> ret, remote_calls |-> remote_calls, logged |-> logged]

\* a client that calls the model a second time when the first call raised
RetryOnFailure(remote) == IF remote.kind = "raise" THEN 2 ELSE 1

\* The number of times analyze_app invokes the remote model once the prompt
\* is built: a single generate_content call, whatever comes back
RemoteAttempts(remote) == 1

\* The response half of the detector's try block: the call, json.loads, the
\* validation
JudgeResponse(remote) ==
    IF remote.kind = "raise" THEN Run(Raise(remote.exc), RemoteAttempts(remote), <<>>)
    ELSE
      LET result == json_loads(remote.text)
      IN IF IsExc(result) THEN Run(result, RemoteAttempts(remote), <<>>)
         ELSE IF ~_validate_result_format(result.val)
         THEN Run(Ok(InvalidFormatFallback), RemoteAttempts(remote),
                  <<LogEvent("warning", "invalid_format"),
                    LogEvent("info", "analysis_complete")>>)
         ELSE Run(Ok(result.val.d), RemoteAttempts(remote),
                  <<LogEvent("info", "analysis_complete")>>)

\* the same lines of LLMAnalyzer.analyze_app, with its own validator
LLMJudgeResponse(remote) ==
    IF remote.kind = "raise" THEN Run(Raise(remote.exc), RemoteAttempts(remote), <<>>)
    ELSE
      LET result == json_loads(remote.text)
      IN IF IsExc(result) THEN Run(result, RemoteAttempts(remote), <<>>)
         ELSE IF ~validate_result_format(result.val)
         THEN Run(Ok(InvalidFormatFallback), RemoteAttempts(remote),
                  <<LogEvent("warning", "invalid_format"),
                    LogEvent("info", "analysis_complete")>>)
         ELSE Run(Ok(result.val.d), RemoteAttempts(remote),
                  <<LogEvent("info", "analysis_complete")>>)

\* the remote call and what follows it are reached only with a prompt
AfterPrompt(prompt, judged) ==
    IF IsExc(prompt) THEN Run(prompt, 0, <<>>) ELSE judged

Logged(events, run) == Run(run.ret, run.remote_calls, events \o run.logged)

\* an except clause that answers with the invalid-format reason
ExceptWrongReason(run) ==
    IF IsExc(run.ret)
    THEN Run(Ok(Verdict(Str("suspected"),
                        Str("Analysis produced invalid format. Manual review recommended."))),
             run.remote_calls, run.logged)
    ELSE run

\* an except clause that logs and lets the exception go on
ExceptReraise(run) == run

\* the except clause of analyze_app: a caught exception becomes the fallback
ExceptFallback(run) ==
    IF IsExc(run.ret) /\ ExceptException(run.ret.exc)
    THEN Run(Ok(ErrorFallback), run.remote_calls,
             run.logged \o <<LogEvent("error", "error_analyzing")>>)
    ELSE run

\* the try block of analyze_app, from the extractor's outcome on (the
\* extractor logs "Preprocessed data" as it returns)
AnalyzeTry(processed_data, remote) ==
    IF IsExc(processed_data) THEN Run(processed_data, 0, <<>>)
    ELSE Logged(<<LogEvent("info", "preprocessed")>>,
                AfterPrompt(generate_llm_prompt(processed_data.val),
                            JudgeResponse(remote)))

analyze_app(app_data, remote) ==
    ExceptFallback(AnalyzeTry(preprocess_app_data(app_data), remote))

\* LLMAnalyzer: the prompt reads these keys of the bundle with app_data[...]
llm_generate_llm_prompt(app_data) ==
    Ok(<<app_data.title, app_data.category, app_data.price,
         app_data.content_rating, app_data.description, app_data.developer,
         app_data.permissions, app_data.reviews,
         app_data.suspicious_indicators>>)

\* the bundle carries app_id, so the log lines that read it do not raise
llm_analyze_app(app_data, remote) ==
    ExceptFallback(AfterPrompt(llm_generate_llm_prompt(app_data),
                               LLMJudgeResponse(remote)))

\* ------------------------------------------------------------------------
\* Batch orchestrator (detector.py batch_analyze) as a state machine
\* ------------------------------------------------------------------------
MaxApps == 2

\* Raw app records the batch is fed (each a dict, as batch_analyze's
\* List[Dict] says)
SampleApp ==
    ("appId" :> Str("com.test.app"))
    @@ ("title" :> Str("Test Finance App"))
    @@ ("description" :>
            Str("This is a test finance app that helps you manage your money."))
    @@ ("category" :> Str("Finance"))
    @@ ("contentRating" :> Str("Rated for 3+"))
    @@ ("price" :> Num(0))
    @@ ("developer" :> Dict("privacyPolicy" :> Str("https://testapp.com/privacy")))

BareApp == <<>>

\* the scraping client stores details.get("price"), None when the store
\* reports no price
NullPriceApp ==
    ("appId" :> Str("com.b.wallet"))
    @@ ("title" :> Str("B Wallet"))
    @@ ("category" :> Str("Finance"))
    @@ ("price" :> None)

\* a record shaped as PlayStoreClient.process_app writes it
ScrapedApp ==
    ("appId" :> Str("com.c.game"))
    @@ ("title" :> Str("C Game"))
    @@ ("category" :> Str("Games"))
    @@ ("price" :> Num(0))
    @@ ("developer" :> Dict(("id" :> Str("dev1"))
                            @@ ("email" :> Str("dev@c.example"))
                            @@ ("privacyPolicy" :> None)))
    @@ ("permissions" :>
            Dict(("list" :> List(<<Str("android.permission.CAMERA"),
                                   Str("android.permission.INTERNET")>>))
                 @@ ("count" :> Num(2))))
    @@ ("comments" :> List(<<Dict(("text" :> Str("Nice")) @@ ("score" :> Num(5)))>>))

PaidFinanceApp ==
    ("title" :> Str("Paid Finance"))
    @@ ("category" :> Str("Finance"))
    @@ ("price" :> Num(2))
    @@ ("permissions" :> List(<<Str("android.permission.READ_SMS"),
                                Str("android.permission.SEND_SMS"),
                                Str("android.permission.INTERNET")>>))
    @@ ("reviews" :> List(<<Dict(("text" :> Str("great")) @@ ("score" :> Num(5))),
                            Dict("score" :> Num(1))>>))

RawRecords == {SampleApp, BareApp, NullPriceApp, ScrapedApp, PaidFinanceApp}

\* What a caller may hand to batch_analyze: a list of records, or None
BatchInputs ==
    {None} \cup {List(q) : q \in UNION {[1..n -> RawRecords] : n \in 0..MaxApps}}

NoRemote == [kind |-> "none"]

VARIABLES
    apps_data,  \* the argument of batch_analyze
    pc,         \* "start", "loop", "done", "raised", "llm_done"
    idx,        \* 1-based position of the for loop
    results,    \* batch_analyze's results list
    verdicts,   \* what analyze_app returned for each record, before enrichment
    calls,      \* the record positions the remote model was invoked for, in order
    outcomes,   \* per analyzed record, what the remote model did (NoRemote if not invoked)
    log,        \* what batch_analyze and analyze_app log, in order
    raised,     \* the exception that left batch_analyze, or "none"
    llm         \* the run of LLMAnalyzer.analyze_app, once made

batch_vars == <<apps_data, pc, idx, results, verdicts, calls, outcomes, log, raised, llm>>

\* The evaluator (utils/metrics.py), run on its own
VARIABLES
    true_labels,     \* first argument of calculate_performance_metrics
    pred_labels,     \* second argument
    metrics_result   \* <<>> before the call, then <<its outcome>>

metrics_vars == <<true_labels, pred_labels, metrics_result>>

MetricsIdle ==
    /\ true_labels = <<>>
    /\ pred_labels = <<>>
    /\ metrics_result = <<>>

\* The feature extractors, run on their own
VARIABLES
    record,      \* the raw app record handed to the extractors
    extracted    \* <<>> before, then <<[detector |-> outcome of
                 \* PlayStoreFraudDetector.preprocess_app_data,
                 \* analyzer |-> outcome of app_analyzer.preprocess_app_data]>>

extract_vars == <<record, extracted>>

ExtractIdle ==
    /\ record = <<>>
    /\ extracted = <<>>

\* The command-line entry point (main.py)
VARIABLES
    args,          \* what parse_args returns (the command line)
    env,           \* what main finds around it: the configure call's outcome,
                   \* whether data/input/input.json exists, the apps the
                   \* store has for the query, what the user types
    main_pc,       \* "start", "init", "workflow", "exited"
    exit_status,   \* the status the process exits with, -1 while it runs
    main_log,      \* the logger's and the console's lines, in order
    progress       \* the stages reached: "detector", "batch_analysis",
                   \* "saved", "summary"

main_vars == <<args, env, main_pc, exit_status, main_log, progress>>

MainIdle ==
    /\ args = <<>>
    /\ env = <<>>
    /\ main_pc = "idle"
    /\ exit_status = -1
    /\ main_log = <<>>
    /\ progress = {}

\* the variables the batch orchestrator leaves alone
unit_vars == <<metrics_vars, extract_vars, main_vars>>

vars == <<batch_vars, unit_vars>>

Init ==
    /\ apps_data \in BatchInputs
    /\ pc = "start"
    /\ idx = 1
    /\ results = <<>>
    /\ verdicts = <<>>
    /\ calls = <<>>
    /\ outcomes = <<>>
    /\ log = <<>>
    /\ raised = "none"
    /\ llm = <<>>
    /\ MetricsIdle
    /\ ExtractIdle
    /\ MainIdle

\* results = []; total = len(apps_data)
BatchStart ==
    /\ pc = "start"
    /\ IF IsList(apps_data)
       THEN /\ pc' = "loop"
            /\ raised' = raised
       ELSE /\ pc' = "raised"
            /\ raised' = "TypeError"
    /\ idx' = 1
    /\ results' = <<>>
    /\ UNCHANGED <<apps_data, verdicts, calls, outcomes, log, llm>>
    /\ UNCHANGED unit_vars

\* an enrichment that keeps an app_id or app_title the result already has
EnrichKeepExisting(result, app_data) ==
    result
    @@ ("app_id" :> Get(app_data, "appId", Str("unknown")))
    @@ ("app_title" :> Get(app_data, "title", Str("unknown")))

\* an enrichment that rewrites the reason for the report
EnrichRewritingReason(result, app_data) ==
    ("app_id" :> Get(app_data, "appId", Str("unknown")))
    @@ ("app_title" :> Get(app_data, "title", Str("unknown")))
    @@ ("reason" :> Str("See the report."))
    @@ result

\* result["app_id"] = ...; result["app_title"] = ...
Enrich(result, app_data) ==
    ("app_id" :> Get(app_data, "appId", Str("unknown")))
    @@ ("app_title" :> Get(app_data, "title", Str("unknown")))
    @@ result

\* where the loop puts a record's result
Collect(rs, result) == Append(rs, result)

\* one pass of the for loop: log, analyze_app, enrich, append
BatchIteration ==
    /\ pc = "loop"
    /\ idx <= Len(apps_data.l)
    /\ \E remote \in RemoteOutcomes :
       \E run \in {analyze_app(apps_data.l[idx], remote)} :
         /\ log' = log \o <<LogEvent("info", "processing_app")>> \o run.logged
         /\ calls' = calls \o [k \in 1..run.remote_calls |-> idx]
         /\ outcomes' =
                Append(outcomes, IF run.remote_calls > 0 THEN remote ELSE NoRemote)
         /\ IF IsExc(run.ret)
            THEN /\ pc' = "raised"
                 /\ raised' = run.ret.exc
                 /\ UNCHANGED <<results, verdicts, idx>>
            ELSE /\ results' = Collect(results, Enrich(run.ret.val, apps_data.l[idx]))
                 /\ verdicts' = Append(verdicts, run.ret.val)
                 /\ idx' = idx + 1
                 /\ UNCHANGED <<pc, raised>>
    /\ UNCHANGED <<apps_data, llm>>
    /\ UNCHANGED unit_vars

\* return results
BatchReturn ==
    /\ pc = "loop"
    /\ idx > Len(apps_data.l)
    /\ pc' = "done"
    /\ UNCHANGED <<apps_data, idx, results, verdicts, calls, outcomes, log, raised, llm>>
    /\ UNCHANGED unit_vars

\* LLMAnalyzer.analyze_app on the feature bundle app_analyzer extracts from
\* the first record
LLMAnalyze ==
    /\ pc = "start"
    /\ IsList(apps_data)
    /\ apps_data.l # <<>>
    /\ \E bundle \in {analyzer_preprocess_app_data(apps_data.l[1])} :
         /\ ~IsExc(bundle)
         /\ \E remote \in RemoteOutcomes :
              llm' = <<[bundle |-> bundle.val,
                        remote |-> remote,
                        run |-> llm_analyze_app(bundle.val, remote)]>>
    /\ pc' = "llm_done"
    /\ UNCHANGED <<apps_data, idx, results, verdicts, calls, outcomes, log, raised>>
    /\ UNCHANGED unit_vars

Next ==
    \/ BatchStart
    \/ BatchIteration
    \/ BatchReturn
    \/ LLMAnalyze

Spec == Init /\ [][Next]_vars

\* ------------------------------------------------------------------------
\* Properties
\* ------------------------------------------------------------------------
\* every analyze_app run the state records: those of the batch loop (the
\* record's remote outcome and the verdict returned) and the LLMAnalyzer's
Judged ==
    {[remote |-> outcomes[i], verdict |-> verdicts[i]] : i \in 1..Len(verdicts)}
    \cup {[remote |-> llm[k].remote, verdict |-> llm[k].run.ret.val] :
             k \in {j \in 1..Len(llm) : ~IsExc(llm[j].run.ret)}}

\* the remote call was made and its text decoded as JSON
Decoded(remote) == remote.kind = "text" /\ ~IsExc(json_loads(remote.text))

\* the remote call raised, or its text is no JSON
RemoteFailed(remote) ==
    \/ remote.kind = "raise"
    \/ remote.kind = "text" /\ IsExc(json_loads(remote.text))

\* a decoded value with a type of the enum and a string reason within the limit
HasVerdictShape(doc) ==
    /\ IsDict(doc)
    /\ {"type", "reason"} \subseteq DOMAIN doc.d
    /\ doc.d["type"] \in {Str("fraud"), Str("genuine"), Str("suspected")}
    /\ IsStr(doc.d["reason"])
    /\ Len(doc.d["reason"].s) <= 300

ErrorReason == Str("Error during analysis. Manual review recommended.")
InvalidReason == Str("Analysis produced invalid format. Manual review recommended.")

\* C1: with a list of mapping records, whatever the remote call does, every
\* analyze_app call returns a verdict (a mapping with type and reason) and no
\* exception leaves it: the batch never ends raised, each analyzed record has
\* its verdict, and the LLMAnalyzer run returns as well.
C1_NeverThrows ==
    /\ pc = "raised" => ~IsList(apps_data)
    /\ IsList(apps_data) => raised = "none"
    /\ Len(verdicts) = Len(outcomes)
    /\ \A i \in 1..Len(verdicts) : {"type", "reason"} \subseteq DOMAIN verdicts[i]
    /\ \A k \in 1..Len(llm) :
         /\ ~IsExc(llm[k].run.ret)
         /\ {"type", "reason"} \subseteq DOMAIN llm[k].run.ret.val

C1_Witness ==
    /\ pc = "done"
    /\ Len(verdicts) = 2
    /\ outcomes[1].kind = "raise"
    /\ outcomes[2] = NoRemote

\* C2: every verdict analyze_app returned has a type among fraud, genuine,
\* suspected and a reason that is a string of at most 300 characters.
C2_VerdictSchema ==
    \A j \in Judged :
        /\ j.verdict["type"] \in {Str("fraud"), Str("genuine"), Str("suspected")}
        /\ IsStr(j.verdict["reason"])
        /\ Len(j.verdict["reason"].s) <= 300

C2_Witness ==
    /\ pc = "done"
    /\ Len(verdicts) = 2
    /\ Len(verdicts[1]["reason"].s) = 300
    /\ outcomes[2].kind = "text"
    /\ Decoded(outcomes[2])
    /\ IsDict(json_loads(outcomes[2].text).val)
    /\ "reason" \in DOMAIN json_loads(outcomes[2].text).val.d
    /\ IsStr(json_loads(outcomes[2].text).val.d["reason"])
    /\ Len(json_loads(outcomes[2].text).val.d["reason"].s) = 301

\* C3: a verdict is the model's own (its type and reason) exactly when the
\* remote call returned text that decoded to a value of the verdict shape;
\* in every other case its type is suspected, so genuine and fraud come only
\* from an accepted response.
C3_SuspectedUnlessAccepted ==
    \A j \in Judged :
        IF Decoded(j.remote) /\ HasVerdictShape(json_loads(j.remote.text).val)
        THEN /\ j.verdict["type"] = json_loads(j.remote.text).val.d["type"]
             /\ j.verdict["reason"] = json_loads(j.remote.text).val.d["reason"]
        ELSE j.verdict["type"] = Str("suspected")

C3_Witness ==
    /\ pc = "done"
    /\ Len(verdicts) = 2
    /\ verdicts[1]["type"] = Str("fraud")
    /\ outcomes[2].kind = "raise"
    /\ verdicts[2]["type"] = Str("suspected")

\* C4: when the remote call raised or its text did not decode, the verdict is
\* exactly {type: suspected, reason: "Error during analysis. Manual review
\* recommended."}.
C4_ErrorFallback ==
    \A j \in Judged :
        RemoteFailed(j.remote) =>
            j.verdict = ("type" :> Str("suspected")) @@ ("reason" :> ErrorReason)

C4_Witness ==
    /\ pc = "done"
    /\ Len(verdicts) = 2
    /\ outcomes[1].kind = "raise"
    /\ outcomes[2].kind = "text"
    /\ IsExc(json_loads(outcomes[2].text))

\* C5: when the text decoded but the value has not the verdict shape, the
\* verdict is the invalid-format fallback: type suspected, the reason
\* "Analysis produced invalid format. Manual review recommended.", never the
\* error reason.
C5_InvalidFormatFallback ==
    \A j \in Judged :
        (Decoded(j.remote) /\ ~HasVerdictShape(json_loads(j.remote.text).val)) =>
            /\ j.verdict = ("type" :> Str("suspected")) @@ ("reason" :> InvalidReason)
            /\ j.verdict["reason"] # ErrorReason

C5_Witness ==
    /\ pc = "done"
    /\ Len(verdicts) = 2
    /\ Decoded(outcomes[1])
    /\ ~IsDict(json_loads(outcomes[1].text).val)
    /\ Decoded(outcomes[2])
    /\ IsDict(json_loads(outcomes[2].text).val)
    /\ "reason" \notin DOMAIN json_loads(outcomes[2].text).val.d

\* the values the validator was applied to: every decoded response
ValidatedValues ==
    {json_loads(outcomes[i].text).val :
        i \in {n \in 1..Len(outcomes) : Decoded(outcomes[n])}}

\* C6: the validator accepts a value if and only if it is a mapping whose
\* key set is exactly {type, reason}, with type in the enum and reason a
\* string of at most 300 characters; a mapping with more keys is rejected.
C6_ExactKeys ==
    \A doc \in ValidatedValues :
        _validate_result_format(doc) <=>
            /\ IsDict(doc)
            /\ DOMAIN doc.d = {"type", "reason"}
            /\ doc.d["type"] \in {Str("fraud"), Str("genuine"), Str("suspected")}
            /\ IsStr(doc.d["reason"])
            /\ Len(doc.d["reason"].s) <= 300

\* C7: the results are one per input record, in input order: the i-th
\* result carries the type and reason analyze_app returned for the i-th
\* record, its app_id is that record's appId ("unknown" if absent) and its
\* app_title that record's title ("unknown" if absent), whatever keys the
\* model's response had; at the end there are as many results as records.
C7_SameOrderSameLength ==
    /\ IsList(apps_data) => Len(results) <= Len(apps_data.l)
    /\ pc = "done" => Len(results) = Len(apps_data.l)
    /\ Len(results) = Len(verdicts)
    /\ \A i \in 1..Len(results) :
         /\ results[i]["type"] = verdicts[i]["type"]
         /\ results[i]["reason"] = verdicts[i]["reason"]
         /\ results[i]["app_id"] =
                (IF "appId" \in DOMAIN apps_data.l[i]
                 THEN apps_data.l[i]["appId"] ELSE Str("unknown"))
         /\ results[i]["app_title"] =
                (IF "title" \in DOMAIN apps_data.l[i]
                 THEN apps_data.l[i]["title"] ELSE Str("unknown"))

C7_Witness ==
    /\ pc = "done"
    /\ Len(results) = 2
    /\ "appId" \notin DOMAIN apps_data.l[1]
    /\ "app_id" \in DOMAIN verdicts[2]
    /\ verdicts[2]["app_id"] = Str("evil.id")
    /\ results[2]["app_id"] = Str("com.c.game")

\* the i-th record could not be judged: its feature extraction raised, the
\* remote call raised, or the response did not decode
RecordFailed(i) ==
    \/ outcomes[i] = NoRemote
    \/ RemoteFailed(outcomes[i])

\* C8: a failure on one record (extraction, remote call or parsing) becomes
\* that record's fallback verdict; the batch does not abort, every record is
\* analyzed by the end, and each record's verdict is what analyze_app gives
\* for that record and its own remote outcome alone.
C8_PerRecordIsolation ==
    /\ IsList(apps_data) => pc # "raised"
    /\ pc = "done" => Len(outcomes) = Len(apps_data.l) /\ Len(results) = Len(apps_data.l)
    /\ \A i \in 1..Len(outcomes) :
         /\ i <= Len(results)
         /\ RecordFailed(i) =>
              /\ results[i]["type"] = Str("suspected")
              /\ results[i]["reason"] = ErrorReason
         /\ Ok(verdicts[i]) = analyze_app(apps_data.l[i], outcomes[i]).ret

C8_Witness ==
    /\ pc = "done"
    /\ Len(results) = 2
    /\ outcomes[1] = NoRemote
    /\ results[1]["reason"] = ErrorReason
    /\ results[2]["type"] = Str("fraud")

\* C9: an empty or a missing (None) input collection gives an empty result
\* and a reported condition, no exception and no remote call.
C9_EmptyOrMissingInput ==
    (pc \in {"done", "raised"} /\ (apps_data = None \/ apps_data = List(<<>>))) =>
        /\ pc = "done"
        /\ raised = "none"
        /\ results = <<>>
        /\ calls = <<>>
        /\ \E k \in 1..Len(log) : log[k].level \in {"warning", "error"}

\* C10 as stated: by the end the remote model was invoked exactly once for
\* each record, in input order.
C10_ExactlyOnce ==
    pc = "done" => calls = [i \in 1..Len(apps_data.l) |-> i]

\* C10 amended: the remote model is invoked at most once per record and in
\* input order: exactly once for a record whose feature extraction
\* succeeded, not at all for one whose extraction raised.
C10_AtMostOnce ==
    /\ \A a, b \in 1..Len(calls) : a < b => calls[a] < calls[b]
    /\ \A a \in 1..Len(calls) : calls[a] \in 1..Len(outcomes)
    /\ \A i \in 1..Len(outcomes) :
         (\E a \in 1..Len(calls) : calls[a] = i)
             <=> ~IsExc(preprocess_app_data(apps_data.l[i]))

C10_Witness ==
    /\ pc = "done"
    /\ Len(apps_data.l) = 2
    /\ IsExc(preprocess_app_data(apps_data.l[1]))
    /\ outcomes[2].kind = "raise"
    /\ calls = <<2>>

\* ------------------------------------------------------------------------
\* Evaluator (utils/metrics.py)
\* ------------------------------------------------------------------------
MaxLabels == 4

\* Python's float results are kept as exact fractions num/den (den > 0); the
\* model does not round
Frac(a, b) == [num |-> a, den |-> b]
FracEq(x, y) == x.num * y.den = y.num * x.den
FracAdd(x, y) == Frac(x.num * y.den + y.num * x.den, x.den * y.den)
FracMul(x, y) == Frac(x.num * y.num, x.den * y.den)

\* x / y; Python raises on a zero divisor
FracDiv(x, y) ==
    IF y.num = 0 THEN Raise("ZeroDivisionError")
    ELSE Ok(Frac(x.num * y.den, x.den * y.num))

\* a count that takes the pair the other way round
CountPairsSwapped(ts, ps, t, p) ==
    Cardinality({i \in 1..Len(ts) : i <= Len(ps) /\ ts[i] = p /\ ps[i] = t})

\* sum(1 for t, p in zip(true_labels, pred_labels) if t == .. and p == ..)
CountPairs(ts, ps, t, p) ==
    Cardinality({i \in 1..Len(ts) : i <= Len(ps) /\ ts[i] = t /\ ps[i] = p})

\* a / b if b > 0 else 0
GuardedRatio(a, b) == IF b > 0 THEN FracDiv(Frac(a, 1), Frac(b, 1)) ELSE Ok(Frac(0, 1))

\* 2 * precision * recall / (precision + recall) if (precision + recall) > 0 else 0
F1Score(precision, recall) ==
    IF FracAdd(precision, recall).num > 0
    THEN FracDiv(FracMul(FracMul(Frac(2, 1), precision), recall),
                 FracAdd(precision, recall))
    ELSE Ok(Frac(0, 1))

\* the returned dictionary, from the outcomes of the divisions in the order
\* the code makes them
MetricsReport(tp, fp, tn, fn, accuracy, precision, recall, f1_score, false_positive_rate, false_negative_rate) ==
    IF IsExc(accuracy) THEN accuracy
    ELSE IF IsExc(precision) THEN precision
    ELSE IF IsExc(recall) THEN recall
    ELSE IF IsExc(f1_score) THEN f1_score
    ELSE IF IsExc(false_positive_rate) THEN false_positive_rate
    ELSE IF IsExc(false_negative_rate) THEN false_negative_rate
    ELSE Ok([accuracy |-> accuracy.val,
             precision |-> precision.val,
             recall |-> recall.val,
             f1_score |-> f1_score.val,
             false_positive_rate |-> false_positive_rate.val,
             false_negative_rate |-> false_negative_rate.val,
             confusion_matrix |-> [true_positives |-> tp,
                                   false_positives |-> fp,
                                   true_negatives |-> tn,
                                   false_negatives |-> fn]])

\* lines 31-40, from the four cells and the precision and recall outcomes
MetricsFrom(n, tp, fp, tn, fn, precision, recall) ==
    MetricsReport(tp, fp, tn, fn,
                  FracDiv(Frac(tp + tn, 1), Frac(n, 1)),
                  precision,
                  recall,
                  IF IsExc(precision) \/ IsExc(recall) THEN Ok(Frac(0, 1))
                  ELSE F1Score(precision.val, recall.val),
                  GuardedRatio(fp, fp + tn),
                  GuardedRatio(fn, fn + tp))

\* lines 25-57, from the four cells
MetricsOfCells(n, tp, fp, tn, fn) ==
    MetricsFrom(n, tp, fp, tn, fn, GuardedRatio(tp, tp + fp), GuardedRatio(tp, tp + fn))

\* a guard that forgets the empty lists
RejectOnlyMismatch(ts, ps) == Len(ts) # Len(ps)

\* the two early returns of the empty report
RejectLabels(ts, ps) == Len(ts) # Len(ps) \/ ts = <<>>

EmptyReport == <<>>

calculate_performance_metrics(ts, ps) ==
    IF RejectLabels(ts, ps) THEN Ok(EmptyReport)
    ELSE MetricsOfCells(Len(ts),
                        CountPairs(ts, ps, 1, 1),
                        CountPairs(ts, ps, 0, 1),
                        CountPairs(ts, ps, 0, 0),
                        CountPairs(ts, ps, 1, 0))

Labels == {0, 1}
LabelLists == UNION {[1..n -> Labels] : n \in 0..MaxLabels}

\* every variable but the evaluator's stays as it starts
BatchIdle ==
    /\ apps_data = List(<<>>)
    /\ pc = "idle"
    /\ idx = 1
    /\ results = <<>>
    /\ verdicts = <<>>
    /\ calls = <<>>
    /\ outcomes = <<>>
    /\ log = <<>>
    /\ raised = "none"
    /\ llm = <<>>

MetricsInit ==
    /\ true_labels \in LabelLists
    /\ pred_labels \in LabelLists
    /\ metrics_result = <<>>
    /\ BatchIdle
    /\ ExtractIdle
    /\ MainIdle

Evaluate ==
    /\ metrics_result = <<>>
    /\ metrics_result' = <<calculate_performance_metrics(true_labels, pred_labels)>>
    /\ UNCHANGED <<true_labels, pred_labels, batch_vars, extract_vars, main_vars>>

MetricsNext == Evaluate

MetricsSpec == MetricsInit /\ [][MetricsNext]_vars

\* ------------------------------------------------------------------------
\* The feature extractors on their own: raw records and one extraction
\* ------------------------------------------------------------------------
MaxPermissions == 5
MaxReviews == 20

\* d without the keys outside keep
Restrict(d, keep) == [k \in DOMAIN d \cap keep |-> d[k]]

FullReview == ("score" :> Num(4)) @@ ("text" :> Str("Works as described"))

\* a record with every field the extractor reads; its first review has the
\* keys in review_keys only
FullRecord(review_keys) ==
    ("appId" :> Str("com.full.app"))
    @@ ("title" :> Str("Full App"))
    @@ ("description" :> Str("An app with every field"))
    @@ ("category" :> Str("Tools"))
    @@ ("price" :> Num(3))
    @@ ("contentRating" :> Str("Everyone"))
    @@ ("developer" :> Dict(("email" :> Str("dev@full.example"))
                            @@ ("website" :> Str("https://full.example"))
                            @@ ("privacyPolicy" :> Str("https://full.example/p"))))
    @@ ("permissions" :> List(<<Str("android.permission.CAMERA"),
                                Str("android.permission.INTERNET")>>))
    @@ ("reviews" :> List(<<Dict(Restrict(FullReview, review_keys)),
                            Dict(FullReview)>>))

RecordFields ==
    {"appId", "title", "description", "category", "price", "contentRating",
     "developer", "permissions", "reviews"}

\* records with any subset of the fields absent
SparseRecords ==
    {Restrict(FullRecord(review_keys), present) :
        review_keys \in SUBSET {"score", "text"}, present \in SUBSET RecordFields}

\* descriptions around the limit: the part past the limit is written in
\* another letter
DescriptionTexts ==
    { "",
      Repeat("a", MaxDescription \div 2),
      Repeat("a", MaxDescription - 1) \o "b",
      Repeat("a", MaxDescription),
      Repeat("a", MaxDescription) \o "b",
      Repeat("a", MaxDescription) \o Repeat("b", MaxDescription \div 2) }

DescribedRecords == {("description" :> Str(t)) @@ SampleApp : t \in DescriptionTexts}

PermissionNames ==
    {"android.permission.CAMERA", "android.permission.READ_SMS",
     "android.permission.INTERNET"}

PermissionLists ==
    UNION {[1..m -> {Str(x) : x \in PermissionNames}] : m \in 0..MaxPermissions}

\* permissions as a raw list, the shape the detector's counter iterates
RawPermissionRecords ==
    {("appId" :> Str("com.perm.raw")) @@ ("permissions" :> List(q)) : q \in PermissionLists}

\* permissions as PlayStoreClient.process_app writes them
WrappedPermissionRecords ==
    {("appId" :> Str("com.perm.wrapped"))
     @@ ("permissions" :> Dict(("list" :> List(q)) @@ ("count" :> Num(Len(q))))) :
        q \in PermissionLists}

Digit(d) == SubSeq("0123456789", d + 1, d + 1)

\* one review text per number
ReviewText(j) == "review no " \o Digit((j \div 10) % 10) \o Digit(j % 10)

\* n reviews, the first five_stars of them with score 5 and the others with
\* score 1, over texts different texts
ReviewList(n, five_stars, texts) ==
    [i \in 1..n |->
        Dict(("score" :> Num(IF i <= five_stars THEN 5 ELSE 1))
             @@ ("text" :> Str(ReviewText(i % texts))))]

\* every length up to MaxReviews, every number of five-star reviews, and
\* texts all alike, half alike, all different
ReviewLists ==
    UNION {{ReviewList(n, k, u) :
               k \in 0..n, u \in {1, IF n > 1 THEN n \div 2 ELSE 1, n}} :
           n \in 1..MaxReviews}

\* a text of more than 20 characters: the same first 20 for every number,
\* the number after them
LongReviewText(j) == "Great app, loved it! " \o ReviewText(j)

\* n reviews of score 3: the first without_text of them have no text, the
\* others have texts that all differ, long ones past the 20th character only
PrefixReviewList(n, without_text, long) ==
    [i \in 1..n |->
        Dict(IF i <= without_text THEN "score" :> Num(3)
             ELSE ("score" :> Num(3))
                  @@ ("text" :> Str(IF long THEN LongReviewText(i) ELSE ReviewText(i))))]

PrefixReviewLists ==
    {PrefixReviewList(n, m, long) :
        n \in MinReviewsForPatterns..MaxReviews, m \in 0..MaxReviews, long \in BOOLEAN}

\* the detector reads the reviews under "reviews", app_analyzer under
\* "comments"
ReviewedRecords ==
    {("appId" :> Str("com.reviewed")) @@ ("reviews" :> List(q)) @@ ("comments" :> List(q)) :
        q \in {<<>>} \cup ReviewLists \cup PrefixReviewLists}

Prices == {Num(-1), Num(0), Num(1), Num(3)}

Categories == {Str("Finance"), Str("finance"), Str("FINANCE"), Str("Finance "), Str("Tools"), Str("")}

\* records with and without a price and a category
PricedRecords ==
    {Restrict(("appId" :> Str("com.priced")) @@ ("price" :> price) @@ ("category" :> category),
              present) :
        price \in Prices, category \in Categories,
        present \in {{"appId"}, {"appId", "price"}, {"appId", "category"},
                     {"appId", "price", "category"}}}

ExtractorInputs ==
    RawRecords \cup SparseRecords \cup DescribedRecords
    \cup RawPermissionRecords \cup WrappedPermissionRecords \cup ReviewedRecords
    \cup PricedRecords

ExtractInit ==
    /\ record \in ExtractorInputs
    /\ extracted = <<>>
    /\ BatchIdle
    /\ MetricsIdle
    /\ MainIdle

Preprocess ==
    /\ extracted = <<>>
    /\ extracted' = <<[detector |-> preprocess_app_data(record),
                       analyzer |-> analyzer_preprocess_app_data(record)]>>
    /\ UNCHANGED <<record, batch_vars, metrics_vars, main_vars>>

ExtractNext == Preprocess

ExtractSpec == ExtractInit /\ [][ExtractNext]_vars

\* the positions where the true label is t and the predicted label is p
Cell(t, p) == Cardinality({i \in DOMAIN true_labels : true_labels[i] = t /\ pred_labels[i] = p})

\* x is a/b, or 0 when b is 0
IsRatioOrZero(x, a, b) == IF b = 0 THEN x.num = 0 ELSE x.num * b = a * x.den

\* C11: for equal-length non-empty 0/1 label sequences the report has TP, FP,
\* TN, FN equal to the pairwise counts of (1,1), (0,1), (0,0), (1,0),
\* accuracy (TP+TN)/N, precision TP/(TP+FP), recall TP/(TP+FN),
\* f1 2*precision*recall/(precision+recall), false_positive_rate FP/(FP+TN),
\* false_negative_rate FN/(FN+TP), each ratio 0 when its denominator is 0, and
\* the call does not raise; [1,0,1,0] against [1,1,0,0] gives 1,1,1,1 and
\* accuracy, precision, recall and f1 of 1/2.
C11_MetricsFormulas ==
    (/\ metrics_result # <<>>
     /\ Len(true_labels) = Len(pred_labels)
     /\ true_labels # <<>>) =>
        /\ ~IsExc(metrics_result[1])
        /\ LET m == metrics_result[1].val
               TP == Cell(1, 1)
               FP == Cell(0, 1)
               TN == Cell(0, 0)
               FN == Cell(1, 0)
           IN /\ m.confusion_matrix = [true_positives |-> TP, false_positives |-> FP,
                                       true_negatives |-> TN, false_negatives |-> FN]
              /\ m.accuracy.den # 0 /\ m.precision.den # 0 /\ m.recall.den # 0
              /\ m.f1_score.den # 0
              /\ m.false_positive_rate.den # 0 /\ m.false_negative_rate.den # 0
              /\ IsRatioOrZero(m.accuracy, TP + TN, Len(true_labels))
              /\ IsRatioOrZero(m.precision, TP, TP + FP)
              /\ IsRatioOrZero(m.recall, TP, TP + FN)
              /\ IsRatioOrZero(m.false_positive_rate, FP, FP + TN)
              /\ IsRatioOrZero(m.false_negative_rate, FN, FN + TP)
              \* f1 * (precision + recall) = 2 * precision * recall, f1 = 0
              \* when precision + recall = 0
              /\ IF m.precision.num = 0 /\ m.recall.num = 0
                 THEN m.f1_score.num = 0
                 ELSE m.f1_score.num
                          * (m.precision.num * m.recall.den
                             + m.recall.num * m.precision.den)
                      = 2 * m.precision.num * m.recall.num * m.f1_score.den
              /\ (true_labels = <<1, 0, 1, 0>> /\ pred_labels = <<1, 1, 0, 0>>) =>
                    /\ TP = 1 /\ FP = 1 /\ TN = 1 /\ FN = 1
                    /\ 2 * m.accuracy.num = m.accuracy.den
                    /\ 2 * m.precision.num = m.precision.den
                    /\ 2 * m.recall.num = m.recall.den
                    /\ 2 * m.f1_score.num = m.f1_score.den

C11_Witness ==
    /\ metrics_result # <<>>
    /\ true_labels = <<1, 0, 1, 0>>
    /\ pred_labels = <<1, 1, 0, 0>>
    /\ ~IsExc(metrics_result[1])
    /\ metrics_result[1].val.confusion_matrix.false_positives = 1

\* C12: with label sequences of different lengths, or with two empty
\* sequences, the call returns the empty report and does not raise.
C12_EmptyReport ==
    (/\ metrics_result # <<>>
     /\ (Len(true_labels) # Len(pred_labels)
         \/ (true_labels = <<>> /\ pred_labels = <<>>))) =>
        /\ ~IsExc(metrics_result[1])
        /\ metrics_result[1].val = <<>>

C12_Witness ==
    /\ metrics_result # <<>>
    /\ true_labels = <<>>
    /\ pred_labels = <<>>
    /\ metrics_result[1] = Ok(<<>>)

\* the bundle field a raw field feeds, and the value it takes when the raw
\* field is absent
BundleField(field) ==
    CASE field = "appId" -> "app_id"
      [] field = "contentRating" -> "content_rating"
      [] OTHER -> field

DefaultOf(field) ==
    CASE field = "appId" -> Str("unknown")
      [] field = "title" -> Str("")
      [] field = "description" -> Str("")
      [] field = "category" -> Str("")
      [] field = "price" -> Num(0)
      [] field = "contentRating" -> Str("")
      [] field = "developer" -> Dict(<<>>)
      [] field = "permissions" -> List(<<>>)
      [] field = "reviews" -> [available |-> FALSE]

\* C13: for a mapping record with any subset of the fields appId, title,
\* description, category, price, contentRating, developer, permissions,
\* reviews (and score, text inside a review) absent, preprocess_app_data
\* returns a bundle without raising; the bundle has every field, and the
\* field of each absent raw field holds its default (app_id "unknown",
\* price 0, empty strings, empty developer, empty permissions, reviews
\* {available: false}).
C13_DefaultsForAbsentFields ==
    (extracted # <<>> /\ record \in SparseRecords) =>
        /\ ~IsExc(extracted[1].detector)
        /\ DOMAIN extracted[1].detector.val =
               {"app_id", "title", "description", "category", "price", "developer",
                "content_rating", "reviews", "permissions", "suspicious_indicators"}
        /\ \A field \in RecordFields \ DOMAIN record :
               extracted[1].detector.val[BundleField(field)] = DefaultOf(field)
        /\ \A field \in (DOMAIN record) \ {"description", "reviews"} :
               extracted[1].detector.val[BundleField(field)] = record[field]
        /\ "reviews" \in DOMAIN record =>
               /\ extracted[1].detector.val.reviews.available
               /\ extracted[1].detector.val.reviews.count = 2

C13_Witness ==
    /\ extracted # <<>>
    /\ DOMAIN record = {"reviews", "category"}
    /\ DOMAIN record["reviews"].l[1].d = {}
    /\ ~IsExc(extracted[1].detector)
    /\ extracted[1].detector.val.app_id = Str("unknown")
    /\ extracted[1].detector.val.price = Num(0)
    /\ extracted[1].detector.val.reviews.count = 2

\* the record's description text, "" when it has none
RecordDescription ==
    IF "description" \in DOMAIN record THEN record["description"].s ELSE ""

\* the description fields of the bundles the two extractors returned
BundleDescriptions ==
    {o.val.description :
        o \in {x \in UNION {{extracted[k].detector, extracted[k].analyzer} :
                                k \in DOMAIN extracted} : ~IsExc(x)}}

\* C14: the bundle description is the first min(len, 1000) characters of the
\* record's description: longer than 1000 gives exactly the 1000-character
\* prefix, at most 1000 is unchanged, absent or empty gives "", and it is
\* never longer than 1000; for both extractors.
C14_DescriptionTruncated ==
    \A b \in BundleDescriptions :
        /\ IsStr(b)
        /\ Len(b.s) <= 1000
        /\ Len(b.s) = (IF Len(RecordDescription) > 1000
                       THEN 1000 ELSE Len(RecordDescription))
        /\ b.s = SubSeq(RecordDescription, 1, Len(b.s))
        /\ Len(RecordDescription) <= 1000 => b.s = RecordDescription
        /\ RecordDescription = Repeat("a", 1000) \o Repeat("b", 500) =>
               b.s = Repeat("a", 1000)

C14_Witness ==
    /\ extracted # <<>>
    /\ Len(RecordDescription) = 1500
    /\ ~IsExc(extracted[1].detector)
    /\ ~IsExc(extracted[1].analyzer)
    /\ Len(extracted[1].detector.val.description.s) = 1000
    /\ Len(extracted[1].analyzer.val.description.s) = 1000

\* the record's permissions field is the wrapped mapping with a list
HasWrappedPermissions ==
    /\ "permissions" \in DOMAIN record
    /\ IsDict(record["permissions"])
    /\ "list" \in DOMAIN record["permissions"].d

\* C17: when the record's permissions field is the wrapped mapping
\* {count, list}, each extractor (the detector's preprocess_app_data and
\* app_analyzer's) uses the list value as the permission sequence: the
\* bundle's permissions equal that list and dangerous_permissions.total
\* equals its length; a raw list or an absent field is tolerated without
\* failure.
C17_WrappedPermissionList ==
    \A k \in DOMAIN extracted :
        /\ HasWrappedPermissions =>
             \A o \in {extracted[k].detector, extracted[k].analyzer} :
                /\ ~IsExc(o)
                /\ o.val.permissions = record["permissions"].d["list"]
                /\ o.val.suspicious_indicators["dangerous_permissions"].total
                       = Len(record["permissions"].d["list"].l)
        /\ ("permissions" \notin DOMAIN record \/ IsList(record["permissions"])) =>
             (record \in RawPermissionRecords \cup SparseRecords =>
                 /\ ~IsExc(extracted[k].detector)
                 /\ ~IsExc(extracted[k].analyzer))

\* the permission sequences the two counters were run on, each with the
\* counts returned: the detector's counter on a raw list, app_analyzer's on
\* the list of a wrapped field
Scored ==
    {[permissions |-> record["permissions"].l,
      counts |-> extracted[k].detector.val.suspicious_indicators["dangerous_permissions"],
      scorer |-> "detector"] :
        k \in {j \in DOMAIN extracted :
                  /\ "permissions" \in DOMAIN record
                  /\ IsList(record["permissions"])
                  /\ ~IsExc(extracted[j].detector)}}
    \cup
    {[permissions |-> record["permissions"].d["list"].l,
      counts |-> extracted[k].analyzer.val.suspicious_indicators["dangerous_permissions"],
      scorer |-> "analyzer"] :
        k \in {j \in DOMAIN extracted :
                  /\ HasWrappedPermissions
                  /\ ~IsExc(extracted[j].analyzer)}}

\* the counts the same counter gives once one more permission is added
CountsWithOneMore(x, name) ==
    IF x.scorer = "detector"
    THEN _count_dangerous_permissions(
             "permissions" :> List(Append(x.permissions, Str(name)))).val
    ELSE count_dangerous_permissions(List(Append(x.permissions, Str(name)))).val

IsReference(p) == IsStr(p) /\ p.s \in DANGEROUS_PERMISSIONS

\* C18: for every permission sequence the scoring returns total = its
\* length, dangerous_found = its members of the twelve-element reference
\* set in input order, dangerous_count = the length of dangerous_found,
\* dangerous_ratio = dangerous_count / total (0 when total is 0), so the
\* ratio lies in 0..1; and for a sequence drawn from the reference set the
\* ratio does not decrease when a further dangerous permission is added.
C18_DangerousScoring ==
    /\ Cardinality(DANGEROUS_PERMISSIONS) = 12
    /\ \A x \in Scored :
        LET found == SelectSeq(x.permissions, IsReference)
        IN /\ x.counts.total = Len(x.permissions)
           /\ x.counts.dangerous_found = [i \in 1..Len(found) |-> found[i].s]
           /\ x.counts.dangerous_count = Len(found)
           /\ x.counts.dangerous_ratio.den > 0
           /\ IF Len(x.permissions) = 0
              THEN x.counts.dangerous_ratio.num = 0
              ELSE x.counts.dangerous_ratio.num * Len(x.permissions)
                       = Len(found) * x.counts.dangerous_ratio.den
           /\ 0 <= x.counts.dangerous_ratio.num
           /\ x.counts.dangerous_ratio.num <= x.counts.dangerous_ratio.den
           /\ (\A i \in DOMAIN x.permissions : IsReference(x.permissions[i])) =>
                \A name \in PermissionNames \cap DANGEROUS_PERMISSIONS :
                    x.counts.dangerous_ratio.num
                        * CountsWithOneMore(x, name).dangerous_ratio.den
                    <= CountsWithOneMore(x, name).dangerous_ratio.num
                        * x.counts.dangerous_ratio.den

C18_Witness ==
    /\ extracted # <<>>
    /\ "permissions" \in DOMAIN record
    /\ record["permissions"] = List(<<Str("android.permission.READ_SMS"),
                                      Str("android.permission.INTERNET"),
                                      Str("android.permission.READ_SMS")>>)
    /\ ~IsExc(extracted[1].detector)
    /\ extracted[1].detector.val.suspicious_indicators["dangerous_permissions"].dangerous_count = 2

\* the review sequences the two summarizers were run on, each with the
\* summary returned: the detector reads "reviews", app_analyzer "comments"
Summaries ==
    {[reviews |-> record["reviews"].l, summary |-> extracted[k].detector.val.reviews] :
        k \in {j \in DOMAIN extracted :
                  /\ "reviews" \in DOMAIN record
                  /\ IsList(record["reviews"])
                  /\ ~IsExc(extracted[j].detector)}}
    \cup
    {[reviews |-> record["comments"].l, summary |-> extracted[k].analyzer.val.reviews] :
        k \in {j \in DOMAIN extracted :
                  /\ "comments" \in DOMAIN record
                  /\ IsList(record["comments"])
                  /\ ~IsExc(extracted[j].analyzer)}}

\* C19: for a review sequence of length at most 10 (10 included) the
\* summary's suspicious_patterns is empty, whatever the scores and texts;
\* for the empty sequence the summary is exactly {available: false}.
C19_NoPatternsUpToTen ==
    \A x \in Summaries :
        /\ Len(x.reviews) = 0 => x.summary = [available |-> FALSE]
        /\ (1 <= Len(x.reviews) /\ Len(x.reviews) <= 10) =>
              /\ x.summary.available
              /\ DOMAIN x.summary.suspicious_patterns = {}

C19_Witness ==
    /\ extracted # <<>>
    /\ "reviews" \in DOMAIN record
    /\ record["reviews"] = List(ReviewList(10, 10, 1))
    /\ ~IsExc(extracted[1].detector)
    /\ extracted[1].detector.val.reviews.count = 10
    /\ extracted[1].detector.val.reviews.five_star_percentage = [num |-> 10, den |-> 10]
    /\ ~IsExc(extracted[1].analyzer)
    /\ extracted[1].analyzer.val.reviews.count = 10

\* the number of reviews of score 5 in a sequence
FiveStars(reviews) ==
    Cardinality({i \in DOMAIN reviews :
                    "score" \in DOMAIN reviews[i].d /\ reviews[i].d["score"] = Num(5)})

\* C20: the summary has excessive_five_stars (true) if and only if there
\* are more than 10 reviews and the fraction of score-5 reviews is strictly
\* greater than 9/10; at exactly 90% (18 of 20) the flag is absent.
C20_ExcessiveFiveStars ==
    \A x \in Summaries :
        Len(x.reviews) > 0 =>
            /\ ("excessive_five_stars" \in DOMAIN x.summary.suspicious_patterns)
                   <=> (/\ Len(x.reviews) > 10
                        /\ 10 * FiveStars(x.reviews) > 9 * Len(x.reviews))
            /\ "excessive_five_stars" \in DOMAIN x.summary.suspicious_patterns =>
                   x.summary.suspicious_patterns["excessive_five_stars"] = TRUE
            /\ (Len(x.reviews) = 20 /\ FiveStars(x.reviews) = 18) =>
                   "excessive_five_stars" \notin DOMAIN x.summary.suspicious_patterns

C20_Witness ==
    /\ extracted # <<>>
    /\ "reviews" \in DOMAIN record
    /\ Len(record["reviews"].l) = 20
    /\ FiveStars(record["reviews"].l) = 19
    /\ ~IsExc(extracted[1].detector)
    /\ "excessive_five_stars" \in DOMAIN extracted[1].detector.val.reviews.suspicious_patterns
    /\ ~IsExc(extracted[1].analyzer)
    /\ "excessive_five_stars" \in DOMAIN extracted[1].analyzer.val.reviews.suspicious_patterns

\* ------------------------------------------------------------------------
\* Entry point (main.py), detector construction (detector.py __init__,
\* initialize_llm) and the prompt (utils/cli_utils.py)
\* ------------------------------------------------------------------------
MaxStoreApps == 2
DefaultTopN == 5

\* int(text): the numerals the user may type, and anything else is a
\* ValueError
Numerals == {<<"3", 3>>, <<"5", 5>>}

int(text) ==
    IF \E d \in Numerals : d[1] = text
    THEN Ok((CHOOSE d \in Numerals : d[1] = text)[2])
    ELSE Raise("ValueError")

\* get_user_query on the two lines the user types: the bare string
\* "finance" for an empty query, else the pair of query and count
get_user_query(typed_query, typed_count) ==
    LET query == IF typed_query = "buisness" THEN "business" ELSE typed_query
        top_n == int(IF typed_count = "" THEN "5" ELSE typed_count)
    IN IF query = "" THEN [tuple |-> FALSE, query |-> "finance"]
       ELSE [tuple |-> TRUE,
             query |-> query,
             top_n |-> IF IsExc(top_n) THEN DefaultTopN ELSE top_n.val]

\* args.x or default
OrDefault(v, default) == IF Truthy(v) THEN v ELSE default

\* main, lines 36-50: the query and the count the run works with
Selection(a, query_input) ==
    IF a.no_prompt
    THEN [query |-> OrDefault(a.query, Str("finance")),
          top_n |-> OrDefault(a.top_n, Num(DefaultTopN))]
    ELSE IF query_input.tuple
         THEN [query |-> Str(query_input.query), top_n |-> Num(query_input.top_n)]
         ELSE [query |-> Str(query_input.query),
               top_n |-> OrDefault(a.top_n, Num(DefaultTopN))]

\* what a step of main yields: a return value or an exception, the exit
\* code a SystemExit carries, the lines logged and the stages reached
MainRun(ret, code, logged, reached) ==
    [ret |-> ret, code |-> code, logged |-> logged, reached |-> reached]

\* an initialize_llm that logs the failure and goes on
InitializeLogsOnly(configure) ==
    IF configure.kind = "raise" /\ ExceptException(configure.exc)
    THEN MainRun(Ok(None), 0, <<LogEvent("error", "failed_to_initialize_llm")>>, {})
    ELSE IF configure.kind = "raise"
    THEN MainRun(Raise(configure.exc), 0, <<>>, {})
    ELSE MainRun(Ok(None), 0, <<LogEvent("info", "llm_configured")>>, {})

\* initialize_llm: genai.configure and GenerativeModel in a try; an
\* Exception is logged and answered with sys.exit(1)
initialize_llm(configure) ==
    IF configure.kind = "raise" /\ ExceptException(configure.exc)
    THEN MainRun(Raise("SystemExit"), 1,
                 <<LogEvent("error", "failed_to_initialize_llm")>>, {})
    ELSE IF configure.kind = "raise"
    THEN MainRun(Raise(configure.exc), 0, <<>>, {})
    ELSE MainRun(Ok(None), 0, <<LogEvent("info", "llm_configured")>>, {})

\* PlayStoreFraudDetector(...): initialize_llm, the client, the log line
Construct(llm_run) ==
    IF IsExc(llm_run.ret) THEN llm_run
    ELSE MainRun(Ok(None), 0,
                 llm_run.logged \o <<LogEvent("info", "system_initialized")>>,
                 {"detector"})

\* the methods of PlayStoreFraudDetector, each with its parameters
DetectorMethods ==
    ("initialize_llm" :> {})
    @@ ("preprocess_app_data" :> {"app_data"})
    @@ ("_process_reviews" :> {"reviews"})
    @@ ("_count_dangerous_permissions" :> {"app_data"})
    @@ ("_analyze_developer_history" :> {"developer_data"})
    @@ ("_extract_suspicious_indicators" :> {"app_data"})
    @@ ("generate_llm_prompt" :> {"app_data"})
    @@ ("analyze_app" :> {"app_data"})
    @@ ("_validate_result_format" :> {"result"})
    @@ ("batch_analyze" :> {"apps_data"})

\* detector.method(keyword=...): the attribute lookup, then the binding of
\* the keywords to the method's parameters (none of them has a default);
\* result is what the body returns once it runs
CallDetector(method, keywords, result) ==
    IF method \notin DOMAIN DetectorMethods THEN Raise("AttributeError")
    ELSE IF keywords # DetectorMethods[method] THEN Raise("TypeError")
    ELSE Ok(result)

\* lines 57-72, from the outcome of the batch_analyze call
SkipScrapingBranch(input_exists, returned) ==
    IF ~input_exists
    THEN MainRun(Ok(1), 0,
                 <<LogEvent("info", "skipping_scraping"),
                   LogEvent("error", "input_file_not_found")>>, {})
    ELSE IF IsExc(returned)
    THEN MainRun(returned, 0, <<LogEvent("info", "skipping_scraping")>>, {})
    ELSE MainRun(Ok(0), 0,
                 <<LogEvent("info", "skipping_scraping"),
                   LogEvent("info", "returned_saved"),
                   LogEvent("print", "summary")>>,
                 {"batch_analysis", "saved", "summary"})

\* lines 73-87, from the outcome of the sequential_workflow call
FullWorkflowBranch(returned) ==
    IF IsExc(returned)
    THEN MainRun(returned, 0, <<LogEvent("info", "running_full_workflow")>>, {})
    ELSE IF ~Truthy(returned.val)
    THEN MainRun(Ok(1), 0,
                 <<LogEvent("info", "running_full_workflow"),
                   LogEvent("print", "no_apps_found")>>, {})
    ELSE MainRun(Ok(0), 0,
                 <<LogEvent("info", "running_full_workflow"),
                   LogEvent("print", "summary")>>,
                 {"batch_analysis", "saved", "summary"})

\* the results a call would hand back for n apps (their content plays no
\* part in main's control flow)
ResultsFor(n) == List([i \in 1..n |-> Dict(ErrorFallback)])

\* the try block of main after the detector is built
WorkflowTry(a, e) ==
    IF a.skip_scraping
    THEN SkipScrapingBranch(
             e.input_exists,
             CallDetector("batch_analyze", {"file_path"}, ResultsFor(e.store_apps)))
    ELSE FullWorkflowBranch(
             CallDetector("sequential_workflow", {"query", "top_n"},
                          ResultsFor(e.store_apps)))

\* main's handlers: except KeyboardInterrupt returns 0, except Exception
\* logs and returns 1, anything else goes on
MainExcept(run) ==
    IF ~IsExc(run.ret) THEN run
    ELSE IF run.ret.exc = "KeyboardInterrupt"
    THEN MainRun(Ok(0), 0, run.logged \o <<LogEvent("print", "interrupted")>>, run.reached)
    ELSE IF ExceptException(run.ret.exc)
    THEN MainRun(Ok(1), 0,
                 run.logged \o <<LogEvent("error", "error_in_main_execution")>>,
                 run.reached)
    ELSE run

\* sys.exit(main()): the status of the process
ExitStatus(run) ==
    IF ~IsExc(run.ret) THEN run.ret.val
    ELSE IF run.ret.exc = "SystemExit" THEN run.code
    ELSE 1

ConfigureOutcomes ==
    {[kind |-> "ok"]}
    \cup {[kind |-> "raise", exc |-> x] : x \in RemoteExceptions \cup {"KeyboardInterrupt"}}

CommandLines ==
    [api_key : {None, Str("key")},
     query : {None, Str("games")},
     top_n : {None, Num(3)},
     skip_scraping : BOOLEAN,
     no_prompt : BOOLEAN]

Environments ==
    [configure : ConfigureOutcomes,
     input_exists : BOOLEAN,
     store_apps : 0..MaxStoreApps,
     typed_query : {"", "games", "buisness"},
     typed_count : {"", "3", "many"}]

MainInit ==
    /\ args \in CommandLines
    /\ env \in Environments
    /\ main_pc = "start"
    /\ exit_status = -1
    /\ main_log = <<>>
    /\ progress = {}
    /\ BatchIdle
    /\ MetricsIdle
    /\ ExtractIdle

\* lines 29-50: parse_args (parser.error exits with status 2 when there is
\* no API key), then the query and count
MainStart ==
    /\ main_pc = "start"
    /\ IF ~Truthy(args.api_key)
       THEN /\ main_pc' = "exited"
            /\ exit_status' = 2
            /\ main_log' = main_log \o <<LogEvent("print", "api_key_required")>>
       ELSE /\ main_pc' = "init"
            /\ exit_status' = exit_status
            /\ main_log' =
                   main_log \o <<[level |-> "print", what |-> "selection",
                                  selection |->
                                      Selection(args, get_user_query(env.typed_query,
                                                                     env.typed_count))]>>
    /\ UNCHANGED <<args, env, progress, batch_vars, metrics_vars, extract_vars>>

\* a step of main ended with run: the handlers, then either the next
\* position or the end of the process
MainStep(run, next_pc) ==
    /\ main_log' = main_log \o run.logged
    /\ progress' = progress \cup run.reached
    /\ IF IsExc(run.ret) \/ next_pc = "exited"
       THEN /\ main_pc' = "exited"
            /\ exit_status' = ExitStatus(run)
       ELSE /\ main_pc' = next_pc
            /\ exit_status' = exit_status
    /\ UNCHANGED <<args, env, batch_vars, metrics_vars, extract_vars>>

\* line 54: detector = PlayStoreFraudDetector(...), inside main's try
MainConstruct ==
    /\ main_pc = "init"
    /\ \E run \in {MainExcept(Construct(initialize_llm(env.configure)))} :
           MainStep(run, IF IsExc(run.ret) \/ run.reached = {} THEN "exited" ELSE "workflow")

\* lines 56-87 and the handlers
MainWorkflow ==
    /\ main_pc = "workflow"
    /\ \E run \in {MainExcept(WorkflowTry(args, env))} : MainStep(run, "exited")

MainNext ==
    \/ MainStart
    \/ MainConstruct
    \/ MainWorkflow

MainSpec == MainInit /\ [][MainNext]_vars

\* ------------------------------------------------------------------------
\* Properties of the entry point
\* ------------------------------------------------------------------------
ConfigureFails == env.configure.kind = "raise" /\ ExceptException(env.configure.exc)

MainLogged(what) == \E k \in DOMAIN main_log : main_log[k].what = what

\* C15: when configuring the judgment model raises at start-up, the
\* process ends with a failure status and never goes past initialization:
\* no stage after the construction of the detector is reached, no record
\* is preprocessed, no remote call is made, no verdict is emitted, and the
\* handler in main does not swallow the termination.
C15_ConfigurationFailureIsFatal ==
    (ConfigureFails /\ main_pc \notin {"start", "init"}) =>
        /\ main_pc = "exited"
        /\ exit_status # 0
        /\ (Truthy(args.api_key) => exit_status = 1 /\ MainLogged("failed_to_initialize_llm"))
        /\ ~MainLogged("error_in_main_execution")
        /\ progress = {}
        /\ calls = <<>>
        /\ verdicts = <<>>
        /\ extracted = <<>>

C15_Witness ==
    /\ ConfigureFails
    /\ Truthy(args.api_key)
    /\ main_pc = "exited"
    /\ exit_status = 1
    /\ MainLogged("failed_to_initialize_llm")

AvailableInput ==
    \/ args.skip_scraping /\ env.input_exists
    \/ ~args.skip_scraping /\ env.store_apps >= 1

\* C16: a run of main with a valid credential and available input (the
\* input file with --skip_scraping, or a full run that finds an app)
\* reaches batch analysis, saves the results, displays the summary and
\* returns status 0.
C16_RunWithInputSucceeds ==
    (/\ main_pc = "exited"
     /\ Truthy(args.api_key)
     /\ env.configure.kind = "ok"
     /\ AvailableInput) =>
        /\ exit_status = 0
        /\ {"batch_analysis", "saved", "summary"} \subseteq progress

\* ------------------------------------------------------------------------
\* Properties of the review texts and of the compound flags
\* ------------------------------------------------------------------------
\* the first 20 characters of a review's text, the empty text for a review
\* without one
TextStart(review) ==
    IF "text" \in DOMAIN review.d
    THEN SubSeq(review.d["text"].s, 1,
                IF Len(review.d["text"].s) < 20 THEN Len(review.d["text"].s) ELSE 20)
    ELSE ""

DistinctStarts(reviews) == Cardinality({TextStart(reviews[i]) : i \in DOMAIN reviews})

\* the texts of the reviews are strings where there are texts
TextsAreStrings(reviews) ==
    \A i \in DOMAIN reviews :
        /\ IsDict(reviews[i])
        /\ "text" \in DOMAIN reviews[i].d => IsStr(reviews[i].d["text"])

\* C21: the summary has similar_review_texts (true) if and only if there
\* are more than 10 reviews and the number of distinct 20-character text
\* prefixes, a missing text counting as the empty prefix, is strictly less
\* than half the review count; reviews that differ only after the first 20
\* characters count as the same text.
C21_SimilarReviewTexts ==
    \A x \in Summaries :
        (Len(x.reviews) > 0 /\ TextsAreStrings(x.reviews)) =>
            /\ ("similar_review_texts" \in DOMAIN x.summary.suspicious_patterns)
                   <=> (/\ Len(x.reviews) > 10
                        /\ 2 * DistinctStarts(x.reviews) < Len(x.reviews))
            /\ "similar_review_texts" \in DOMAIN x.summary.suspicious_patterns =>
                   x.summary.suspicious_patterns["similar_review_texts"] = TRUE
            /\ (\E n \in 11..MaxReviews : x.reviews = PrefixReviewList(n, 0, TRUE)) =>
                   "similar_review_texts" \in DOMAIN x.summary.suspicious_patterns

\* twelve reviews whose texts differ after the 20th character only
C21_Witness ==
    /\ extracted # <<>>
    /\ "reviews" \in DOMAIN record
    /\ record["reviews"] = List(PrefixReviewList(12, 0, TRUE))
    /\ Cardinality({record["reviews"].l[i].d["text"] : i \in 1..12}) = 12
    /\ ~IsExc(extracted[1].detector)
    /\ "similar_review_texts" \in DOMAIN extracted[1].detector.val.reviews.suspicious_patterns
    /\ ~IsExc(extracted[1].analyzer)
    /\ "similar_review_texts" \in DOMAIN extracted[1].analyzer.val.reviews.suspicious_patterns

\* the indicators mappings of the two bundles, each with the extractor that
\* made it
Indicated ==
    {[indicators |-> extracted[k].detector.val.suspicious_indicators,
      extractor |-> "detector"] :
        k \in {j \in DOMAIN extracted : ~IsExc(extracted[j].detector)}}
    \cup
    {[indicators |-> extracted[k].analyzer.val.suspicious_indicators,
      extractor |-> "analyzer"] :
        k \in {j \in DOMAIN extracted : ~IsExc(extracted[j].analyzer)}}

\* C22: excessive_dangerous_permissions is present (and true) in the
\* bundle's indicators if and only if dangerous_ratio is strictly greater
\* than 2/5; at exactly 2/5 (2 dangerous of 5) and for an empty permission
\* list the key is absent, not false.
C22_ExcessiveDangerousPermissions ==
    /\ \A x \in Indicated :
        LET counts == x.indicators["dangerous_permissions"]
            flagged == "excessive_dangerous_permissions" \in DOMAIN x.indicators
        IN /\ flagged <=> 5 * counts.dangerous_ratio.num > 2 * counts.dangerous_ratio.den
           /\ flagged => x.indicators["excessive_dangerous_permissions"] = TRUE
           /\ counts.total = 0 => ~flagged
           /\ (counts.total = 5 /\ counts.dangerous_count = 2) => ~flagged
    /\ \A x \in Scored :
        \A k \in DOMAIN extracted :
            LET indicators == IF x.scorer = "detector"
                              THEN extracted[k].detector.val.suspicious_indicators
                              ELSE extracted[k].analyzer.val.suspicious_indicators
            IN ("excessive_dangerous_permissions" \in DOMAIN indicators)
                   <=> 5 * Len(SelectSeq(x.permissions, IsReference)) > 2 * Len(x.permissions)

\* three dangerous permissions of five are flagged
C22_Witness ==
    /\ extracted # <<>>
    /\ "permissions" \in DOMAIN record
    /\ record["permissions"] = List(<<Str("android.permission.CAMERA"),
                                      Str("android.permission.INTERNET"),
                                      Str("android.permission.READ_SMS"),
                                      Str("android.permission.INTERNET"),
                                      Str("android.permission.CAMERA")>>)
    /\ ~IsExc(extracted[1].detector)
    /\ "excessive_dangerous_permissions" \in DOMAIN extracted[1].detector.val.suspicious_indicators

\* the record's price, 0 for a record without one
RecordPrice == IF "price" \in DOMAIN record THEN record["price"] ELSE Num(0)

\* C23: paid_finance_app is present (and true) if and only if the record's
\* price is greater than 0 and its category is the string "Finance"
\* exactly; a free Finance app, a paid app of another category, a category
\* such as "finance", and a record without price or category never carry
\* the key.
C23_PaidFinanceApp ==
    \A x \in Indicated :
        LET flagged == "paid_finance_app" \in DOMAIN x.indicators
        IN /\ flagged <=> (/\ "price" \in DOMAIN record
                           /\ record["price"].n > 0
                           /\ "category" \in DOMAIN record
                           /\ record["category"] = Str("Finance"))
           /\ flagged => x.indicators["paid_finance_app"] = TRUE
           /\ ("price" \notin DOMAIN record \/ "category" \notin DOMAIN record) => ~flagged
           /\ RecordPrice.n <= 0 => ~flagged
           /\ ("category" \in DOMAIN record /\ record["category"] = Str("finance")) => ~flagged

C23_Witness ==
    /\ extracted # <<>>
    /\ record = ("appId" :> Str("com.priced")) @@ ("price" :> Num(3)) @@ ("category" :> Str("Finance"))
    /\ ~IsExc(extracted[1].detector)
    /\ "paid_finance_app" \in DOMAIN extracted[1].detector.val.suspicious_indicators
    /\ ~IsExc(extracted[1].analyzer)
    /\ "paid_finance_app" \in DOMAIN extracted[1].analyzer.val.suspicious_indicators

\* ------------------------------------------------------------------------
\* Properties of the developer lookup and of the enrichment
\* ------------------------------------------------------------------------
\* the record's developer is a mapping with an id
HasDeveloperId(app_data) ==
    /\ "developer" \in DOMAIN app_data
    /\ IsDict(app_data["developer"])
    /\ Truthy(Get(app_data["developer"].d, "id", None))

\* the lookup of the developer's apps raises for the record's developer
LookupFails(app_data) ==
    IsExc(get_developer_apps(Get(app_data["developer"].d, "id", None)))

\* the remote model was invoked for the record at position i
Invoked(i) == \E k \in DOMAIN calls : calls[k] = i

\* the response the remote model gave decodes to a verdict of valid format
ValidResponse(remote) ==
    /\ remote.kind = "text"
    /\ ~IsExc(json_loads(remote.text))
    /\ _validate_result_format(json_loads(remote.text).val)

\* C24: when the developer-app-count lookup is unavailable or fails for a
\* record whose developer has an id, feature extraction still completes,
\* app_count and new_developer are left out of developer_issues, the remote
\* judgment call is still made for the record, and the record gets the
\* fallback verdict only when the judgment itself fails.
C24_DeveloperLookupFailureTolerated ==
    \A i \in DOMAIN outcomes :
        (HasDeveloperId(apps_data.l[i]) /\ LookupFails(apps_data.l[i])) =>
            LET bundle == preprocess_app_data(apps_data.l[i])
            IN /\ ~IsExc(bundle)
               /\ DOMAIN bundle.val.suspicious_indicators["developer_issues"]
                      \cap {"app_count", "new_developer"} = {}
               /\ outcomes[i] # NoRemote
               /\ Invoked(i)
               /\ (i \in DOMAIN verdicts /\ ValidResponse(outcomes[i])) =>
                      verdicts[i] = json_loads(outcomes[i].text).val.d

\* a record with a developer id that the remote model judged a fraud
C24_Witness ==
    /\ pc = "done"
    /\ \E i \in DOMAIN verdicts :
        /\ HasDeveloperId(apps_data.l[i])
        /\ LookupFails(apps_data.l[i])
        /\ Invoked(i)
        /\ "type" \in DOMAIN verdicts[i]
        /\ verdicts[i]["type"] = Str("fraud")
        /\ results[i]["app_id"] = Str("com.c.game")

\* every emitted record is the verdict analyze_app returned with app_id and
\* app_title set: same type, same reason, every other key as it was
EnrichmentKeepsVerdict ==
    /\ Len(results) = Len(verdicts)
    /\ \A i \in DOMAIN results :
        /\ {"type", "reason"} \subseteq DOMAIN verdicts[i]
        /\ results[i]["type"] = verdicts[i]["type"]
        /\ results[i]["reason"] = verdicts[i]["reason"]
        /\ DOMAIN results[i] = DOMAIN verdicts[i] \cup {"app_id", "app_title"}
        /\ \A key \in DOMAIN verdicts[i] \ {"app_id", "app_title"} :
               results[i][key] = verdicts[i][key]

\* C25: the enrichment step of batch_analyze only sets app_id and
\* app_title: the type and reason of every emitted record are the type and
\* reason analyze_app returned for that record, and no step of the
\* pipeline changes the input records.
C25_EnrichmentFrame ==
    /\ []EnrichmentKeepsVerdict
    /\ [][apps_data' = apps_data]_vars

\* a whole batch emitted, with a record judged a fraud and one that got the
\* error fallback
C25_Witness ==
    /\ pc = "done"
    /\ Len(results) = 2
    /\ results[1]["type"] = Str("fraud")
    /\ results[1]["reason"] = Str("Requests SMS access without need")
    /\ results[1]["app_id"] = Str("com.c.game")
    /\ results[2] = Enrich(ErrorFallback, apps_data.l[2])
    /\ verdicts[2] = ErrorFallback

\* ------------------------------------------------------------------------
\* Agreement of the two feature extractors
\* ------------------------------------------------------------------------
\* C26: the two feature extractors agree: for every raw record, the
\* records shaped as the scraping client writes them included (permissions
\* wrapped as {list, count}, reviews under "comments"), the detector's
\* preprocess_app_data and app_analyzer's produce the same permission
\* sequence, the same dangerous_permissions sub-record and the same reviews
\* summary.
C26_ExtractorsAgree ==
    \A k \in DOMAIN extracted :
        /\ IsExc(extracted[k].detector) <=> IsExc(extracted[k].analyzer)
        /\ (~IsExc(extracted[k].detector) /\ ~IsExc(extracted[k].analyzer)) =>
              /\ extracted[k].detector.val.permissions
                     = extracted[k].analyzer.val.permissions
              /\ extracted[k].detector.val.suspicious_indicators["dangerous_permissions"]
                     = extracted[k].analyzer.val.suspicious_indicators["dangerous_permissions"]
              /\ extracted[k].detector.val.reviews = extracted[k].analyzer.val.reviews
====
